---- MODULE Spec2Model ----
(***************************************************************************)
(* Model of src/lsm.py: BloomFilter, SSTable and LSMTree.                  *)
(*                                                                         *)
(* Strings are sequences of Unicode code points, files are sequences of    *)
(* bytes (0..255), a file name "l{level}_{seq}.sst" is the pair            *)
(* <<level, seq>> it is formatted from.                                    *)
(***************************************************************************)
EXTENDS Integers, Sequences, FiniteSets, TLC

VARIABLES
    memtable,        \* LSMTree.memtable: dict key -> value
    memtable_limit,  \* LSMTree.memtable_limit (constructor argument)
    levels,          \* LSMTree.levels: list of lists of SSTable handles
    files,           \* the working directory: file name -> bytes
    hist,            \* caller's record: key -> value of its latest put
    distinct,        \* caller's record: no put so far repeated a key
    nops,            \* caller's record: calls made, where the specification counts them
    op,              \* the call that ran last
    ret              \* what that call returned (or the error it raised)

vars == <<memtable, memtable_limit, levels, files, hist, distinct, nops, op, ret>>

-----------------------------------------------------------------------------
(* Bounds of the model.                                                    *)

MaxLimit == 2      \* memtable_limit ranges over 1..MaxLimit
HashSeed == 0      \* the seed of str hashing in the modelled process (PYTHONHASHSEED)
MaxLevels == 3     \* direct _compact_level calls stop growing the level list here
MaxOps == 4        \* calls in a run that also calls _flush_memtable and _compact_level
BloomSize == 64    \* bits of a filter (BloomFilter's default of 8192, scaled down)

(* Program constants.                                                      *)

NumHashes == 4     \* BloomFilter(num_hashes=4)
L0Trigger == 2     \* len(self.levels[0]) > 2

-----------------------------------------------------------------------------
(* Strings.                                                                *)

KeyEmpty == <<>>
KeyA == <<97>>
KeyTilde == <<126>>
KeyHigh == <<223>>          \* "ß": sorts above "~", two bytes in UTF-8

Keys == {KeyEmpty, KeyA, KeyHigh}
Values == {<<>>, <<49>>}    \* "" and "1"
ScanBounds == Keys \cup {KeyTilde}

Min2(a, b) == IF a <= b THEN a ELSE b

RECURSIVE StrLess(_, _)
\* Python's str < str: lexicographic by code point.
StrLess(a, b) ==
    IF b = <<>> THEN FALSE
    ELSE IF a = <<>> THEN TRUE
    ELSE IF Head(a) # Head(b) THEN Head(a) < Head(b)
    ELSE StrLess(Tail(a), Tail(b))

StrLeq(a, b) == a = b \/ StrLess(a, b)

RECURSIVE Flatten(_)
Flatten(ss) == IF ss = <<>> THEN <<>> ELSE Head(ss) \o Flatten(Tail(ss))

Slice(s, from, len) == SubSeq(s, from + 1, Min2(Len(s), from + len))

\* str.encode(): UTF-8 of one code point.
EncodeChar(c) ==
    IF c < 128 THEN <<c>>
    ELSE IF c < 2048 THEN <<192 + (c \div 64), 128 + (c % 64)>>
    ELSE IF c < 65536
    THEN <<224 + (c \div 4096), 128 + ((c \div 64) % 64), 128 + (c % 64)>>
    ELSE <<240 + (c \div 262144), 128 + ((c \div 4096) % 64),
           128 + ((c \div 64) % 64), 128 + (c % 64)>>

RECURSIVE Encode(_)
Encode(s) == IF s = <<>> THEN <<>> ELSE EncodeChar(Head(s)) \o Encode(Tail(s))

None == <<-1>>       \* Python's None as a call's result
Raised == <<-2>>     \* the call ended in an exception

IsCont(b) == b >= 128 /\ b < 192

RECURSIVE Decode(_)
\* bytes.decode(): strict UTF-8; Raised stands for UnicodeDecodeError.
Decode(b) ==
    IF b = <<>> THEN <<>>
    ELSE LET b1 == b[1]
             n == IF b1 < 128 THEN 1
                  ELSE IF b1 >= 194 /\ b1 < 224 THEN 2
                  ELSE IF b1 >= 224 /\ b1 < 240 THEN 3
                  ELSE IF b1 >= 240 /\ b1 < 245 THEN 4
                  ELSE 0
             ok == /\ n > 0
                   /\ Len(b) >= n
                   /\ \A i \in 2..n : IsCont(b[i])
                   /\ (b1 = 224 => b[2] >= 160)
                   /\ (b1 = 237 => b[2] < 160)
                   /\ (b1 = 240 => b[2] >= 144)
                   /\ (b1 = 244 => b[2] < 144)
             c == IF n = 1 THEN b1
                  ELSE IF n = 2 THEN (b1 - 192) * 64 + (b[2] - 128)
                  ELSE IF n = 3
                  THEN (b1 - 224) * 4096 + (b[2] - 128) * 64 + (b[3] - 128)
                  ELSE (b1 - 240) * 262144 + (b[2] - 128) * 4096
                       + (b[3] - 128) * 64 + (b[4] - 128)
             rest == IF ok THEN Decode(SubSeq(b, n + 1, Len(b))) ELSE Raised
         IN  IF ~ok \/ rest = Raised THEN Raised ELSE <<c>> \o rest

RECURSIVE Digits(_)
\* str(n) for n >= 0.
Digits(n) == IF n < 10 THEN <<48 + n>> ELSE Digits(n \div 10) \o <<48 + (n % 10)>>

-----------------------------------------------------------------------------
(* struct.pack / struct.unpack, native little-endian.                      *)

\* struct.pack('I', n)
Pack32(n) ==
    <<n % 256, (n \div 256) % 256, (n \div 65536) % 256, (n \div 16777216) % 256>>

\* struct.pack('Q', n), for the n < 2^32 that occur (offsets into a file)
Pack64(n) == Pack32(n) \o <<0, 0, 0, 0>>

\* struct.unpack('I', b)[0] of four bytes. Numbers from 2^30 on are read as 2^30:
\* they are only ever used as lengths of, counts in and positions in files, all
\* far shorter, where every such number has the same effect.
Unpack32(b) ==
    IF b[4] >= 64 THEN 1073741824
    ELSE b[1] + 256 * b[2] + 65536 * b[3] + 16777216 * b[4]

\* struct.unpack('Q', b)[0] of eight bytes, capped likewise.
Unpack64(b) ==
    IF b[5] + b[6] + b[7] + b[8] > 0 THEN 1073741824 ELSE Unpack32(b)

-----------------------------------------------------------------------------
(* BloomFilter.                                                            *)

RECURSIVE PyHashFrom(_, _)
PyHashFrom(h, s) ==
    IF s = <<>> THEN h ELSE PyHashFrom((h * 31 + Head(s)) % 4096, Tail(s))

\* hash(s) of a str: a fixed function of s within one process, seeded per process
\* (64 bits wide in CPython, 12 bits here).
PyHash(s) == PyHashFrom(HashSeed, s)

NoBloom == [present |-> FALSE, size |-> 0, num_hashes |-> 0, bits |-> <<>>]

BloomNew ==
    [present |-> TRUE, size |-> BloomSize, num_hashes |-> NumHashes,
     bits |-> [i \in 1..((BloomSize + 7) \div 8) |-> 0]]

\* 1 << p for p in 0..7
Shl1(p) == <<1, 2, 4, 8, 16, 32, 64, 128>>[p + 1]

TestBit(byte, p) == (byte \div Shl1(p)) % 2 = 1
SetBit(byte, p) == IF TestBit(byte, p) THEN byte ELSE byte + Shl1(p)

BloomHash(bf, key, seed) == PyHash(key \o Digits(seed)) % bf.size

RECURSIVE BloomAddFrom(_, _, _)
BloomAddFrom(bf, key, i) ==
    IF i >= bf.num_hashes THEN bf
    ELSE LET pos == BloomHash(bf, key, i)
             byteIx == (pos \div 8) + 1
         IN  BloomAddFrom([bf EXCEPT !.bits[byteIx] = SetBit(@, pos % 8)], key, i + 1)

\* BloomAdd with the loop cut to its first round.
BloomAddFirstOnly(bf, key) ==
    [bf EXCEPT !.bits = BloomAddFrom([bf EXCEPT !.num_hashes = 1], key, 0).bits]

BloomAdd(bf, key) == BloomAddFrom(bf, key, 0)

BloomMightContain(bf, key) ==
    \A i \in 0..(bf.num_hashes - 1) :
        LET pos == BloomHash(bf, key, i)
        IN  TestBit(bf.bits[(pos \div 8) + 1], pos % 8)

BloomSerialize(bf) == Pack32(bf.size) \o Pack32(bf.num_hashes) \o bf.bits

BloomDeserialize(data) ==
    [present |-> TRUE,
     size |-> Unpack32(SubSeq(data, 1, 4)),
     num_hashes |-> Unpack32(SubSeq(data, 5, 8)),
     bits |-> SubSeq(data, 9, Len(data))]

-----------------------------------------------------------------------------
(* bisect.                                                                 *)

RECURSIVE BisectLeftFrom(_, _, _, _)
BisectLeftFrom(a, x, lo, hi) ==
    IF lo >= hi THEN lo
    ELSE LET mid == (lo + hi) \div 2
         IN  IF StrLess(a[mid + 1], x) THEN BisectLeftFrom(a, x, mid + 1, hi)
             ELSE BisectLeftFrom(a, x, lo, mid)

BisectLeft(a, x) == BisectLeftFrom(a, x, 0, Len(a))

RECURSIVE BisectRightFrom(_, _, _, _)
BisectRightFrom(a, x, lo, hi) ==
    IF lo >= hi THEN lo
    ELSE LET mid == (lo + hi) \div 2
         IN  IF StrLess(x, a[mid + 1]) THEN BisectRightFrom(a, x, lo, mid)
             ELSE BisectRightFrom(a, x, mid + 1, hi)

BisectRight(a, x) == BisectRightFrom(a, x, 0, Len(a))

-----------------------------------------------------------------------------
(* Dicts: functions from a finite set of keys.                             *)

EmptyDict == [k \in {} |-> <<>>]

DictSet(d, k, v) == (k :> v) @@ d

RECURSIVE DictUpdate(_, _)
\* for k, v in pairs: d[k] = v
DictUpdate(d, pairs) ==
    IF pairs = <<>> THEN d
    ELSE DictUpdate(DictSet(d, pairs[1][1], pairs[1][2]), Tail(pairs))

RECURSIVE SortedItems(_)
\* sorted(d.items()), also sorted(list(d.items()), key=lambda x: x[0]): keys are distinct.
SortedItems(d) ==
    IF DOMAIN d = {} THEN <<>>
    ELSE LET k == CHOOSE x \in DOMAIN d : \A y \in DOMAIN d : StrLeq(x, y)
         IN  <<<<k, d[k]>>>> \o SortedItems([y \in DOMAIN d \ {k} |-> d[y]])

-----------------------------------------------------------------------------
(* SSTable.                                                                *)

FileName(level, seq) == <<level, seq>>

RecordBytes(key, value) ==
    Pack32(Len(Encode(key))) \o Encode(key) \o Pack32(Len(Encode(value))) \o Encode(value)

RECURSIVE WriteRecords(_, _)
\* The first loop of _build: add the key to the filter, note f.tell(), write the record.
WriteRecords(items, acc) ==
    IF items = <<>> THEN acc
    ELSE WriteRecords(Tail(items),
            [bloom |-> BloomAdd(acc.bloom, items[1][1]),
             offsets |-> Append(acc.offsets, Len(acc.data)),
             data |-> acc.data \o RecordBytes(items[1][1], items[1][2])])

IndexData(index) ==
    Pack32(Len(index)) \o
    Flatten([i \in 1..Len(index) |->
        Pack32(Len(Encode(index[i][1]))) \o Encode(index[i][1]) \o Pack64(index[i][2])])

\* SSTable(filename, data): the handle built and the directory after the writes.
SSTableBuild(filename, data, fs) ==
    LET data_sorted == SortedItems(data)
        w == WriteRecords(data_sorted, [bloom |-> BloomNew, offsets |-> <<>>, data |-> <<>>])
        index == [i \in 1..Len(data_sorted) |-> <<data_sorted[i][1], w.offsets[i]>>]
        index_data == IndexData(index)
        content == w.data \o index_data \o Pack32(Len(index_data)) \o BloomSerialize(w.bloom)
    IN  [sst |-> [filename |-> filename, index |-> index, bloom |-> w.bloom],
         files |-> (filename :> content) @@ fs]

RECURSIVE LoadEntries(_, _, _, _)
\* The loop of _load: count entries read from position pos on.
LoadEntries(f, pos, count, index) ==
    IF count = 0 THEN [ok |-> TRUE, index |-> index, pos |-> pos]
    ELSE LET lenb == Slice(f, pos, 4)
             key_len == Unpack32(lenb)
             key == Decode(Slice(f, pos + 4, key_len))
             keyEnd == Min2(Len(f), pos + 4 + key_len)
             offb == Slice(f, keyEnd, 8)
         IN  IF Len(lenb) < 4 \/ key = Raised \/ Len(offb) < 8
             THEN [ok |-> FALSE, index |-> index, pos |-> pos]
             ELSE LoadEntries(f, keyEnd + 8, count - 1, Append(index, <<key, Unpack64(offb)>>))

\* SSTable(filename): the handle read back from the file, or ok = FALSE when _load raises.
SSTableLoad(filename, fs) ==
    LET empty == [filename |-> filename, index |-> <<>>, bloom |-> NoBloom]
    IN  IF filename \notin DOMAIN fs THEN [ok |-> TRUE, sst |-> empty]
        ELSE LET f == fs[filename]
                 n == Len(f)
                 index_size == Unpack32(Slice(f, n - 4, 4))
                 start == n - 4 - index_size
                 count == Unpack32(Slice(f, start, 4))
                 e == LoadEntries(f, start + 4, count, <<>>)
                 bloom_data == SubSeq(f, e.pos + 1, n)
             IN  IF n < 4 \/ start < 0 THEN [ok |-> FALSE, sst |-> empty]
                 ELSE IF ~e.ok THEN [ok |-> FALSE, sst |-> empty]
                 ELSE [ok |-> TRUE,
                       sst |-> [filename |-> filename, index |-> e.index,
                                bloom |-> IF Len(bloom_data) >= 8
                                          THEN BloomDeserialize(bloom_data)
                                          ELSE NoBloom]]

IndexKeys(sst) == [i \in 1..Len(sst.index) |-> sst.index[i][1]]

\* might_contain raises when a filter read back from a file has size 0 or too few bits.
BloomRaises(bf, key) ==
    \/ bf.size = 0
    \/ /\ bf.size > 8 * Len(bf.bits)
       /\ \E i \in 0..(bf.num_hashes - 1) : (BloomHash(bf, key, i) \div 8) + 1 > Len(bf.bits)

\* The read at the end of SSTable.get: the value of the record at offset.
ReadValue(filename, offset, fs) ==
    IF filename \notin DOMAIN fs THEN Raised
    ELSE LET f == fs[filename]
             klb == Slice(f, offset, 4)
             vpos == offset + 4 + Unpack32(klb)
             vlb == Slice(f, vpos, 4)
         IN  IF Len(klb) < 4 \/ Len(vlb) < 4 THEN Raised
             ELSE Decode(Slice(f, vpos + 4, Unpack32(vlb)))

\* SSTableGet without the test keys[pos] != key.
SSTableGetAnyKey(sst, key, fs) ==
    IF ~sst.bloom.present THEN None
    ELSE IF BloomRaises(sst.bloom, key) THEN Raised
    ELSE IF ~BloomMightContain(sst.bloom, key) THEN None
    ELSE LET keys == IndexKeys(sst)
             pos == BisectLeft(keys, key)
         IN  IF pos >= Len(keys) THEN None
             ELSE ReadValue(sst.filename, sst.index[pos + 1][2], fs)

SSTableGet(sst, key, fs) ==
    IF ~sst.bloom.present THEN None
    ELSE IF BloomRaises(sst.bloom, key) THEN Raised
    ELSE IF ~BloomMightContain(sst.bloom, key) THEN None
    ELSE LET keys == IndexKeys(sst)
             pos == BisectLeft(keys, key)
         IN  IF pos >= Len(keys) \/ keys[pos + 1] # key THEN None
             ELSE ReadValue(sst.filename, sst.index[pos + 1][2], fs)

RangeRaised == <<<<Raised, Raised>>>>

RECURSIVE RangeLoop(_, _, _, _, _)
RangeLoop(sst, i, right, result, fs) ==
    IF i >= right THEN result
    ELSE LET key == sst.index[i + 1][1]
             value == SSTableGet(sst, key, fs)
         IN  IF value = Raised THEN RangeRaised
             ELSE RangeLoop(sst, i + 1, right,
                            IF value # None THEN Append(result, <<key, value>>) ELSE result, fs)

\* SSTableRange scanning to the end of the index, whatever end is.
SSTableRangeNoEnd(sst, start, end, fs) ==
    LET keys == IndexKeys(sst)
    IN  RangeLoop(sst, BisectLeft(keys, start), Len(keys), <<>>, fs)

SSTableRange(sst, start, end, fs) ==
    LET keys == IndexKeys(sst)
        left == BisectLeft(keys, start)
        right == BisectRight(keys, end)
    IN  RangeLoop(sst, left, right, <<>>, fs)

SSTableCleanup(sst, fs) == [f \in DOMAIN fs \ {sst.filename} |-> fs[f]]

RECURSIVE CleanupAll(_, _)
CleanupAll(ssts, fs) ==
    IF ssts = <<>> THEN fs ELSE CleanupAll(Tail(ssts), SSTableCleanup(Head(ssts), fs))

-----------------------------------------------------------------------------
(* LSMTree. A tree value t is [memtable, levels, files]; level L of the     *)
(* code is levels[L + 1].                                                  *)

MergeSentinelLow == <<>>        \* ""
MergeSentinelHigh == KeyTilde   \* "~"

RECURSIVE MergeTables(_, _, _)
\* for sst in ssts: for k, v in sst.range("", "~"): merged[k] = v
MergeTables(ssts, merged, fs) ==
    IF ssts = <<>> THEN merged
    ELSE MergeTables(Tail(ssts),
            DictUpdate(merged, SSTableRange(Head(ssts), MergeSentinelLow, MergeSentinelHigh, fs)),
            fs)

\* The inputs of _compact_level(level) as the dict it builds (lines 167-175).
CompactMerged(t, level) ==
    LET fromLevel == MergeTables(t.levels[level + 1], EmptyDict, t.files)
    IN  IF level + 1 < Len(t.levels)
        THEN MergeTables(t.levels[level + 2], fromLevel, t.files)
        ELSE fromLevel

\* The level list once level + 1 exists (lines 177-178).
WithNextLevel(lv, level) == IF level + 1 >= Len(lv) THEN Append(lv, <<>>) ELSE lv

CompactRuns(t, level) == level < Len(t.levels) /\ t.levels[level + 1] # <<>>

\* CompactLevel without the clear of line 183: the output is appended behind
\* the handles of the next level's deleted tables.
CompactLevelNoNextClear(t, level) ==
    IF ~CompactRuns(t, level) THEN t
    ELSE LET merged == CompactMerged(t, level)
             lv1 == WithNextLevel(t.levels, level)
             fs1 == CleanupAll(lv1[level + 2], t.files)
             b == SSTableBuild(FileName(level + 1, 0), merged, fs1)
             fs2 == CleanupAll(lv1[level + 1], b.files)
         IN  [t EXCEPT !.levels = [lv1 EXCEPT ![level + 2] = Append(@, b.sst), ![level + 1] = <<>>],
                       !.files = fs2]

\* CompactLevel without the clear of line 191: the inputs stay listed.
CompactLevelKeepInputs(t, level) ==
    IF ~CompactRuns(t, level) THEN t
    ELSE LET merged == CompactMerged(t, level)
             lv1 == WithNextLevel(t.levels, level)
             fs1 == CleanupAll(lv1[level + 2], t.files)
             b == SSTableBuild(FileName(level + 1, 0), merged, fs1)
             fs2 == CleanupAll(lv1[level + 1], b.files)
         IN  [t EXCEPT !.levels = [lv1 EXCEPT ![level + 2] = <<b.sst>>],
                       !.files = fs2]

\* CompactLevel without the cleanup calls of lines 189-190: the files of the
\* inputs stay on disk.
CompactLevelNoCleanup(t, level) ==
    IF ~CompactRuns(t, level) THEN t
    ELSE LET merged == CompactMerged(t, level)
             lv1 == WithNextLevel(t.levels, level)
             fs1 == CleanupAll(lv1[level + 2], t.files)
             b == SSTableBuild(FileName(level + 1, 0), merged, fs1)
         IN  [t EXCEPT !.levels = [lv1 EXCEPT ![level + 2] = <<b.sst>>, ![level + 1] = <<>>],
                       !.files = b.files]

CompactLevel(t, level) ==
    IF ~CompactRuns(t, level) THEN t
    ELSE LET merged == CompactMerged(t, level)
             lv1 == WithNextLevel(t.levels, level)
             fs1 == CleanupAll(lv1[level + 2], t.files)
             b == SSTableBuild(FileName(level + 1, 0), merged, fs1)
             fs2 == CleanupAll(lv1[level + 1], b.files)
         IN  [t EXCEPT !.levels = [lv1 EXCEPT ![level + 2] = <<b.sst>>, ![level + 1] = <<>>],
                       !.files = fs2]

\* What a failing SSTable(filename, data) leaves in the directory: nothing new
\* when the first open fails (written = -1), else the file with the records
\* written before the error (of _build's three opens and its writes, lines 58-79).
SSTableBuildFailing(filename, data, fs, written) ==
    IF written < 0 THEN fs
    ELSE LET items == SortedItems(data)
             w == WriteRecords(SubSeq(items, 1, written),
                               [bloom |-> BloomNew, offsets |-> <<>>, data |-> <<>>])
         IN  (filename :> w.data) @@ fs

\* _compact_level(level) when the constructor of line 186 raises: lines 167-183
\* have run, lines 187-191 have not.
CompactLevelFailing(t, level, written) ==
    LET merged == CompactMerged(t, level)
        lv1 == WithNextLevel(t.levels, level)
        fs1 == CleanupAll(lv1[level + 2], t.files)
    IN  [t EXCEPT !.levels = [lv1 EXCEPT ![level + 2] = <<>>],
                  !.files = SSTableBuildFailing(FileName(level + 1, 0), merged, fs1, written)]

\* _flush_memtable past its first test (lines 152-161).
\* FlushNonEmpty naming every level-0 file l0_0.sst, whatever level 0 holds.
FlushNonEmptyFirstName(t) ==
    LET lv1 == IF t.levels = <<>> THEN <<<<>>>> ELSE t.levels
        b == SSTableBuild(FileName(0, 0), t.memtable, t.files)
        t1 == [t EXCEPT !.levels = [lv1 EXCEPT ![1] = Append(@, b.sst)],
                        !.files = b.files,
                        !.memtable = EmptyDict]
    IN  IF Len(t1.levels[1]) > L0Trigger THEN CompactLevel(t1, 0) ELSE t1

FlushNonEmpty(t) ==
    LET lv1 == IF t.levels = <<>> THEN <<<<>>>> ELSE t.levels
        b == SSTableBuild(FileName(0, Len(lv1[1])), t.memtable, t.files)
        t1 == [t EXCEPT !.levels = [lv1 EXCEPT ![1] = Append(@, b.sst)],
                        !.files = b.files,
                        !.memtable = EmptyDict]
    IN  IF Len(t1.levels[1]) > L0Trigger THEN CompactLevel(t1, 0) ELSE t1

\* _flush_memtable without the test of lines 149-150.
FlushMemtableUnguarded(t) == FlushNonEmpty(t)

FlushMemtable(t) == IF DOMAIN t.memtable = {} THEN t ELSE FlushNonEmpty(t)

\* TreePut with the test of line 145 made strict.
TreePutLate(t, key, value) ==
    LET t1 == [t EXCEPT !.memtable = DictSet(@, key, value)]
    IN  IF Cardinality(DOMAIN t1.memtable) > memtable_limit THEN FlushMemtable(t1) ELSE t1

TreePut(t, key, value) ==
    LET t1 == [t EXCEPT !.memtable = DictSet(@, key, value)]
    IN  IF Cardinality(DOMAIN t1.memtable) >= memtable_limit THEN FlushMemtable(t1) ELSE t1

RECURSIVE SearchOrder(_, _)
\* The tables in the order both read loops visit them: level len-1 down to 0,
\* each level's list front to back.
SearchOrder(lv, i) == IF i < 1 THEN <<>> ELSE lv[i] \o SearchOrder(lv, i - 1)

RECURSIVE FirstHit(_, _, _)
FirstHit(ssts, key, fs) ==
    IF ssts = <<>> THEN None
    ELSE LET val == SSTableGet(Head(ssts), key, fs)
         IN  IF val # None THEN val ELSE FirstHit(Tail(ssts), key, fs)

TreeGet(t, key) ==
    IF key \in DOMAIN t.memtable THEN t.memtable[key]
    ELSE FirstHit(SearchOrder(t.levels, Len(t.levels)), key, t.files)

RECURSIVE RangeCollect(_, _, _, _, _)
RangeCollect(ssts, start, end, result, fs) ==
    IF ssts = <<>> THEN result
    ELSE LET pairs == SSTableRange(Head(ssts), start, end, fs)
         IN  IF pairs = RangeRaised THEN [k \in {Raised} |-> Raised]
             ELSE RangeCollect(Tail(ssts), start, end, DictUpdate(result, pairs), fs)

TreeRange(t, start, end) ==
    LET inMem == {k \in DOMAIN t.memtable : StrLeq(start, k) /\ StrLeq(k, end)}
        result == [k \in inMem |-> t.memtable[k]]
    IN  SortedItems(RangeCollect(SearchOrder(t.levels, Len(t.levels)), start, end, result, t.files))

\* get with a memtable that stores "" for every key it is asked for and lacks
\* (a defaultdict, or setdefault in place of the test of line 194).
TreeAfterGetSetDefault(t, key) ==
    IF key \in DOMAIN t.memtable THEN t ELSE [t EXCEPT !.memtable = DictSet(@, key, <<>>)]

\* The tree after get(key) and after range(start, end): neither assigns to an
\* attribute of the tree or of a table, and files are opened 'rb' only.
TreeAfterGet(t, key) == t
TreeAfterRange(t, start, end) == t

-----------------------------------------------------------------------------------------------------------------------------------------------------
(* The state machine.                                                      *)

Tree == [memtable |-> memtable, levels |-> levels, files |-> files]

get(key) == TreeGet(Tree, key)
range(start, end) == TreeRange(Tree, start, end)

RetNone == [tag |-> "none"]

Init ==
    /\ memtable = EmptyDict
    /\ memtable_limit \in 1..MaxLimit
    /\ levels = <<>>
    /\ files = EmptyDict
    /\ hist = EmptyDict
    /\ distinct = TRUE
    /\ nops = 0
    /\ op = "init"
    /\ ret = RetNone

Install(t) ==
    /\ memtable' = t.memtable
    /\ levels' = t.levels
    /\ files' = t.files

\* tree.put(key, value)
Put(key, value) ==
    /\ Install(TreePut(Tree, key, value))
    /\ hist' = DictSet(hist, key, value)
    /\ distinct' = (distinct /\ key \notin DOMAIN hist)
    /\ op' = "put"
    /\ ret' = RetNone
    /\ UNCHANGED memtable_limit

\* tree._flush_memtable()
Flush ==
    /\ Install(FlushMemtable(Tree))
    /\ op' = "flush"
    /\ ret' = RetNone
    /\ UNCHANGED <<memtable_limit, hist, distinct>>

\* tree._compact_level(level)
Compact(level) ==
    /\ Install(CompactLevel(Tree, level))
    /\ op' = "compact"
    /\ ret' = RetNone
    /\ UNCHANGED <<memtable_limit, hist, distinct>>

\* A caller that only puts (and reads).
Next == (\E key \in Keys, value \in Values : Put(key, value)) /\ UNCHANGED nops

Spec == Init /\ [][Next]_vars

Counted == nops < MaxOps /\ nops' = nops + 1

\* A caller that also calls the two private methods, MaxOps calls in all.
NextOps ==
    \/ Counted /\ \E key \in Keys, value \in Values : Put(key, value)
    \/ Counted /\ Flush
    \/ Counted /\ \E level \in 0..(MaxLevels - 2) : Compact(level)

SpecOps == Init /\ [][NextOps]_vars

RetRaised == [tag |-> "raised"]

\* tree._compact_level(level) with an I/O error in the output table's constructor.
CompactFail(level, written) ==
    /\ CompactRuns(Tree, level)
    /\ written <= Cardinality(DOMAIN CompactMerged(Tree, level))
    /\ Install(CompactLevelFailing(Tree, level, written))
    /\ op' = "compact"
    /\ ret' = RetRaised
    /\ UNCHANGED <<memtable_limit, hist, distinct>>

\* The same caller on a file system that can fail a compaction's writes.
NextFail ==
    \/ Counted /\ \E key \in Keys, value \in Values : Put(key, value)
    \/ Counted /\ Flush
    \/ Counted /\ \E level \in 0..(MaxLevels - 2) : Compact(level)
    \/ Counted /\ \E level \in 0..(MaxLevels - 2), written \in -1..Cardinality(Keys) :
                     CompactFail(level, written)

SpecFail == Init /\ [][NextFail]_vars

Reading == op \in {"get", "range"}

\* tree.get(key): a first read, or the same read once more
Get(key) ==
    /\ ~Reading \/ (op = "get" /\ ret.args = <<key>> /\ ret.n < 2)
    /\ Install(TreeAfterGet(Tree, key))
    /\ ret' = [tag |-> "read", args |-> <<key>>, val |-> get(key),
               n |-> IF Reading THEN ret.n + 1 ELSE 1]
    /\ op' = "get"
    /\ UNCHANGED <<memtable_limit, hist, distinct, nops>>

\* tree.range(start, end): a first read, or the same read once more
Range(start, end) ==
    /\ ~Reading \/ (op = "range" /\ ret.args = <<start, end>> /\ ret.n < 2)
    /\ Install(TreeAfterRange(Tree, start, end))
    /\ ret' = [tag |-> "read", args |-> <<start, end>>, val |-> range(start, end),
               n |-> IF Reading THEN ret.n + 1 ELSE 1]
    /\ op' = "range"
    /\ UNCHANGED <<memtable_limit, hist, distinct, nops>>

\* A caller that puts, MaxOps times at most, and then reads, each read twice.
NextRead ==
    \/ ~Reading /\ Counted /\ \E key \in Keys, value \in Values : Put(key, value)
    \/ \E key \in ScanBounds : Get(key)
    \/ \E se \in ScanBounds \X ScanBounds : StrLeq(se[1], se[2]) /\ Range(se[1], se[2])

SpecRead == Init /\ [][NextRead]_vars

\* Record sets for a table built on its own: keys may include the scan sentinel.
RecordSets == UNION {[ks -> Values] : ks \in SUBSET ScanBounds}

\* sst = SSTable(filename, data) in an empty directory
SSTBuild(data) ==
    /\ op = "init"
    /\ LET b == SSTableBuild(FileName(0, 0), data, files)
       IN  /\ files' = b.files
           /\ ret' = [tag |-> "built", sst |-> b.sst]
    /\ hist' = data
    /\ op' = "build"
    /\ UNCHANGED <<memtable, memtable_limit, levels, distinct, nops>>

\* sst2 = SSTable(filename): a new handle on the file the first one wrote
SSTReopen ==
    /\ op = "build"
    /\ LET l == SSTableLoad(ret.sst.filename, files)
       IN  ret' = [tag |-> "reopened", built |-> ret.sst, ok |-> l.ok, sst |-> l.sst]
    /\ op' = "reopen"
    /\ UNCHANGED <<memtable, memtable_limit, levels, files, hist, distinct, nops>>

\* sst.cleanup() on the handle that built the file
SSTCleanup ==
    /\ op = "build"
    /\ files' = SSTableCleanup(ret.sst, files)
    /\ ret' = [tag |-> "cleaned", sst |-> ret.sst]
    /\ op' = "cleanup"
    /\ UNCHANGED <<memtable, memtable_limit, levels, hist, distinct, nops>>

NextSST == (\E data \in RecordSets : SSTBuild(data)) \/ SSTReopen \/ SSTCleanup

SpecSST == Init /\ [][NextSST]_vars

-----------------------------------------------------------------------------
(* Reading the state.                                                      *)

RECURSIVE SeqToSet(_)
SeqToSet(s) == IF s = <<>> THEN {} ELSE {Head(s)} \cup SeqToSet(Tail(s))

AllTables == SeqToSet(Flatten(levels))

PairKeys(pairs) == {pairs[i][1] : i \in 1..Len(pairs)}

\* The pairs of a range result that carry key k, in result order.
PairsFor(pairs, k) == SelectSeq(pairs, LAMBDA p : p[1] = k)

ScanPairs == {se \in ScanBounds \X ScanBounds : StrLeq(se[1], se[2])}

MinKey == KeyEmpty
MaxKey == KeyHigh

InScan(k, se) == StrLeq(se[1], k) /\ StrLeq(k, se[2])

-----------------------------------------------------------------------------
(* Claims about the read path, under Spec.                                 *)

\* C1: for every key that was put, get returns the value of its latest put.
C1_PointReadConsistency == \A k \in DOMAIN hist : get(k) = hist[k]

\* C2: every range whose bounds include a key that was put holds exactly one
\* pair for it, carrying the value of its latest put (so a memtable value wins
\* over any SSTable value).
C2_RangeOverwrite ==
    \A se \in ScanPairs : \A k \in DOMAIN hist :
        InScan(k, se) => PairsFor(range(se[1], se[2]), k) = <<<<k, hist[k]>>>>

\* C3: a key that was never put is absent for get and appears in no range result.
C3_Absence ==
    /\ \A k \in Keys \ DOMAIN hist : get(k) = None
    /\ \A se \in ScanPairs : PairKeys(range(se[1], se[2])) \cap (Keys \ DOMAIN hist) = {}

\* C3 witness: the filter of a listed table reports a key that was never put.
C3_FalsePositiveSeen ==
    \E k \in Keys \ DOMAIN hist : \E sst \in AllTables :
        /\ BloomMightContain(sst.bloom, k)
        /\ SSTableGet(sst, k, files) = None
        /\ get(k) = None

\* C4: range returns keys in strictly ascending order (so no key twice), all
\* within the bounds.
C4_RangeOrdering ==
    \A se \in ScanPairs :
        LET r == range(se[1], se[2])
        IN  /\ \A i \in 1..(Len(r) - 1) : StrLess(r[i][1], r[i + 1][1])
            /\ \A i \in 1..Len(r) : InScan(r[i][1], se)

\* C4 witness: a range of two pairs while a readable key lies outside its
\* bounds, with tables on level 0 and level 1.
C4_TwoInRangeOneOutside ==
    \E se \in ScanPairs :
        /\ Len(range(se[1], se[2])) >= 2
        /\ \E k \in DOMAIN hist : ~InScan(k, se) /\ get(k) # None
        /\ Len(levels) >= 2 /\ levels[1] # <<>> /\ levels[2] # <<>>

\* C5: once distinct keys were put and a compaction ran, a range over all keys
\* returns one pair per key put.
C5_NoKeyLost ==
    (distinct /\ Len(levels) >= 2) =>
        /\ PairKeys(range(MinKey, MaxKey)) = DOMAIN hist
        /\ Len(range(MinKey, MaxKey)) = Cardinality(DOMAIN hist)

\* C10: the filter of every listed table reports every key of its index, and
\* the table's get finds every such key.
C10_FilterSoundness ==
    \A sst \in AllTables : \A k \in PairKeys(sst.index) :
        /\ sst.bloom.present
        /\ BloomMightContain(sst.bloom, k)
        /\ SSTableGet(sst, k, files) # None

\* C10 witness: a flushed table and a compacted table are listed, both hold
\* keys, and one of the filters rejects some key.
C10_FlushedAndCompacted ==
    /\ Len(levels) >= 2 /\ levels[1] # <<>> /\ levels[2] # <<>>
    /\ \A sst \in AllTables : sst.index # <<>>
    /\ \E sst \in AllTables : \E k \in Keys : ~BloomMightContain(sst.bloom, k)

-----------------------------------------------------------------------------
(* Claims about flush and compaction, under SpecOps and SpecFail.          *)

StoredKeys == UNION {PairKeys(sst.index) : sst \in AllTables}

\* C6: a compaction leaves the set of keys stored in the tables of all levels
\* as it was.
C6_CompactionConservation == [][op' = "compact" => StoredKeys' = StoredKeys]_vars

\* C7: a flush of an empty memtable changes neither the memtable, nor the
\* levels, nor any file.
C7_IdempotentFlush ==
    [][(op' = "flush" /\ DOMAIN memtable = {}) => UNCHANGED <<memtable, levels, files>>]_vars

\* C7 witness: with memtable_limit = 1 every put flushes, so the memtable was
\* empty when this flush was called; level 0 is one table short of a compaction.
C7_EmptyFlushRan ==
    /\ op = "flush"
    /\ memtable_limit = 1
    /\ DOMAIN memtable = {}
    /\ Len(levels) >= 1 /\ Len(levels[1]) = L0Trigger

\* C8: when a compaction ends in an error, every table listed before it is
\* still listed in its level and the directory is as it was: the inputs are on
\* disk and no output file is left.
C8_CompactionFailureAtomic ==
    [][ret'.tag = "raised" =>
        /\ Len(levels') >= Len(levels)
        /\ \A i \in 1..Len(levels) : levels'[i] = levels[i]
        /\ files' = files]_vars

-----------------------------------------------------------------------------
(* Claim about a table on its own, under SpecSST.                          *)

\* C9: a handle reopened on the file of a table built from the records hist
\* scans, from the least key to the greatest, exactly those records in key
\* order, and its get agrees with the get of the handle that built the file.
C9_RoundTrip ==
    ret.tag = "reopened" =>
        /\ ret.ok
        /\ hist # EmptyDict =>
             LET s == SortedItems(hist)
             IN  SSTableRange(ret.sst, s[1][1], s[Len(s)][1], files) = s
        /\ \A k \in ScanBounds : SSTableGet(ret.sst, k, files) = SSTableGet(ret.built, k, files)

-----------------------------------------------------------------------------
(* Claims about precedence and the shape of the levels.                    *)

\* Level L of the tree, empty when the tree has no such level.
Level(L) == IF L + 1 <= Len(levels) THEN levels[L + 1] ELSE <<>>

\* The list positions of the tables whose index holds key k.
HoldersOf(tables, k) == {j \in 1..Len(tables) : k \in PairKeys(tables[j].index)}

\* The table at the latest list position among those that hold k.
LastHolder(tables, k) ==
    tables[CHOOSE j \in HoldersOf(tables, k) : \A i \in HoldersOf(tables, k) : i <= j]

\* C11: for a key that is not in the memtable and is stored in level 0, get
\* returns the value of the most recently appended level-0 table that stores
\* it, whatever other level-0 tables and the level-1 table store for the key.
C11_Level0SearchOrder ==
    \A k \in Keys :
        (k \notin DOMAIN memtable /\ HoldersOf(Level(0), k) # {}) =>
            get(k) = SSTableGet(LastHolder(Level(0), k), k, files)

\* C12: in the table a compaction of level L leaves at level L+1, every key
\* that a level-L table stored carries the value of the level-L table at the
\* latest list position that stored it, also when the previous level-L+1
\* table stored the key.
C12_MergePrecedence ==
    [][\A L \in 0..(MaxLevels - 2) :
          (Compact(L) /\ CompactRuns(Tree, L)) =>
              LET out == levels'[L + 2][1]
              IN  \A k \in PairKeys(out.index) :
                      HoldersOf(levels[L + 1], k) # {} =>
                          SSTableGet(out, k, files') =
                              SSTableGet(LastHolder(levels[L + 1], k), k, files)]_vars

\* C13: level 0 holds at most L0Trigger tables and every deeper level at most one.
C13_LevelShape ==
    /\ Len(Level(0)) <= L0Trigger
    /\ \A i \in 2..Len(levels) : Len(levels[i]) <= 1

\* C13 witness: after a compaction level 0 has filled up again, next to the
\* one table of level 1.
C13_FullLevel0OverLevel1 ==
    /\ Len(Level(0)) = L0Trigger
    /\ Len(Level(1)) = 1
    /\ DOMAIN memtable = {}

\* C14: every put leaves fewer than memtable_limit entries in the memtable,
\* and a put of a key the memtable already holds keeps the memtable's key set
\* and flushes nothing: levels and files stay as they were.
C14_MemtableBound ==
    [][/\ op' = "put" => Cardinality(DOMAIN memtable') < memtable_limit
       /\ \A k \in DOMAIN memtable, v \in Values :
              (hist' = DictSet(hist, k, v) /\ Put(k, v)) =>
                  /\ DOMAIN memtable' = DOMAIN memtable
                  /\ memtable'[k] = v
                  /\ UNCHANGED <<levels, files>>]_vars

\* C14 witness: no flush has run yet and some key was put twice, so the second
\* put found its key in the memtable.
C14_OverwroteInMemtable ==
    /\ op = "put"
    /\ levels = <<>>
    /\ ~distinct
    /\ Cardinality(DOMAIN memtable) = memtable_limit - 1
    /\ \E k \in DOMAIN memtable : memtable[k] # <<>>

-----------------------------------------------------------------------------
(* Claims about the effect of a flush and of a compaction.                 *)

\* What lines 152-158 do to a memtable m flushed onto a level 0 of fewer than
\* L0Trigger tables, as a relation between the state before and the state after.
FlushEffect(m) ==
    LET n == Len(Level(0))
        new == levels'[1][n + 1]
    IN  /\ memtable' = EmptyDict
        /\ Len(levels') = (IF levels = <<>> THEN 1 ELSE Len(levels))
        /\ Len(levels'[1]) = n + 1
        /\ \A j \in 1..n : levels'[1][j] = levels[1][j]
        /\ \A i \in 2..Len(levels) : levels'[i] = levels[i]
        /\ SSTableRange(new, MinKey, MaxKey, files') = SortedItems(m)
        /\ new.filename \notin DOMAIN files
        /\ DOMAIN files' = DOMAIN files \cup {new.filename}
        /\ \A f \in DOMAIN files : files'[f] = files[f]

\* C15: a flush of a non-empty memtable onto a level 0 of fewer than
\* L0Trigger tables, called directly or by the put that fills the memtable,
\* empties the memtable and appends one table to level 0, in a new file, that
\* scans as exactly the records the memtable held; every table listed before
\* keeps its level, its position and its file's bytes.
C15_FlushPostcondition ==
    [][/\ (op' = "flush" /\ DOMAIN memtable # {} /\ Len(Level(0)) < L0Trigger) =>
              FlushEffect(memtable)
       /\ \A k \in Keys, v \in Values :
              (/\ hist' = DictSet(hist, k, v)
               /\ Cardinality(DOMAIN DictSet(memtable, k, v)) >= memtable_limit
               /\ Len(Level(0)) < L0Trigger
               /\ Put(k, v)) =>
                  FlushEffect(DictSet(memtable, k, v))]_vars

\* C15 witness: with memtable_limit = 1 every put flushes its one record; the
\* last put appended the second table of level 0, behind an older one and
\* above the table an earlier compaction left at level 1.
C15_SecondTableOverLevel1 ==
    /\ op = "put"
    /\ memtable_limit = 1
    /\ DOMAIN memtable = {}
    /\ Len(Level(0)) = L0Trigger
    /\ Len(Level(1)) = 1
    /\ Level(1)[1].index # <<>>

\* The number of listed tables, over all levels, whose index holds key k.
RECURSIVE CopiesFrom(_, _, _)
CopiesFrom(lv, i, k) ==
    IF i > Len(lv) THEN 0
    ELSE Cardinality(HoldersOf(lv[i], k)) + CopiesFrom(lv, i + 1, k)

Copies(lv, k) == CopiesFrom(lv, 1, k)

\* C16: the tree never has a level beyond level 1, and a put whose flush finds
\* level 0 at L0Trigger tables, and so runs compact(0), leaves level 0 empty,
\* one table at level 1, and every key in the index of at most one table.
C16_NoCrossLevelDuplicates ==
    [][/\ Len(levels') <= 2
       /\ (op' = "put" /\ memtable' = EmptyDict /\ Len(Level(0)) = L0Trigger) =>
              /\ levels'[1] = <<>>
              /\ Len(levels'[2]) = 1
              /\ \A k \in ScanBounds : Copies(levels', k) <= 1]_vars

\* C16 witness: a put has just compacted level 0 (it is empty, next to the
\* level-1 table) after some key was put more than once.
C16_JustCompacted ==
    /\ op = "put"
    /\ DOMAIN memtable = {}
    /\ Level(0) = <<>>
    /\ Len(Level(1)) = 1
    /\ Len(Level(1)[1].index) >= 2
    /\ ~distinct

-----------------------------------------------------------------------------
(* Claims about reads.                                                     *)

\* C17: on a handle whose cleanup() has deleted the file, get answers None
\* for every key and range answers the empty list for all bounds; no read
\* raises.
C17_ReadsAfterCleanup ==
    ret.tag = "cleaned" =>
        /\ \A k \in ScanBounds : SSTableGet(ret.sst, k, files) = None
        /\ \A se \in ScanPairs : SSTableRange(ret.sst, se[1], se[2], files) = <<>>

C19_GetRangeAgree ==
    \A k \in ScanBounds :
        range(k, k) = (IF get(k) = None THEN <<>> ELSE <<<<k, get(k)>>>>)

-----------------------------------------------------------------------------
(* Claim about the files.                                                  *)

\* The file names of the listed tables, level by level.
ListedNames(lv) == LET all == Flatten(lv) IN [i \in 1..Len(all) |-> all[i].filename]

\* The listed tables have pairwise distinct file names, and the directory
\* holds exactly the files they name.
Owned(lv, fs) ==
    /\ Cardinality(SeqToSet(ListedNames(lv))) = Len(ListedNames(lv))
    /\ DOMAIN fs = SeqToSet(ListedNames(lv))

\* C20: after every put the listed tables have distinct file names and the
\* directory holds exactly their files; a put removes files only when it
\* compacts level 0, and then it removes the files of the level-0 tables, all
\* of them, leaving level 0 empty and the level-1 table's file on disk.
C20_FileOwnership ==
    [][/\ Owned(levels', files')
       /\ DOMAIN files \ DOMAIN files' # {} =>
              /\ Len(Level(0)) = L0Trigger
              /\ DOMAIN files \ DOMAIN files' = SeqToSet(ListedNames(<<levels[1]>>))
              /\ levels'[1] = <<>>
              /\ Len(levels') = 2 /\ Len(levels'[2]) = 1
              /\ levels'[2][1].filename \in DOMAIN files']_vars

\* C20 witness: level 0 was emptied by a compaction and filled again, so the
\* names l0_0.sst and l0_1.sst are in use for the second time.
C20_NamesReused ==
    /\ Len(Level(0)) = L0Trigger
    /\ Level(0)[1].filename = FileName(0, 0)
    /\ Level(0)[2].filename = FileName(0, 1)
    /\ Len(Level(1)) = 1
    /\ Owned(levels, files)

====
